---- MODULE Spec2Model ----
(***************************************************************************)
(* Model of the manga downloader of src/m4l.py and src/M4L2.py: the        *)
(* routing token resolver, the page prober, the two-pass batch driver      *)
(* (count, confirmation gate, fetch), the progress bar and the history     *)
(* ledger.  Strings whose content the code computes on (the gate answer,   *)
(* titles, the ledger file, chapter numbers) are sequences of one          *)
(* character strings; opaque strings (routing tokens) are TLA+ strings.    *)
(***************************************************************************)
EXTENDS Integers, Sequences, FiniteSets, TLC

VARIABLES
    variant,              \* "m4l" | "M4L2" | "ledger" | "resolver": the program run
    chapters_to_download, \* the requested chapter list
    max_connections,      \* limit of the fetch pass's TCPConnector
    manga_name,           \* self.manga_name, the title the ledger receives
    history,              \* content of download_history.txt (NoFile: absent)
    history0,             \* ledger content when download_chapters was entered
    pc,                   \* position of download_chapters
    idx,                  \* counting pass: position of the chapter being counted
    count,                \* state of the running count_pages_in_chapter
    pages_per_chapter,    \* dict chapter -> page count
    total_chapters_pages, \* the global batch denominator (m4l.py)
    user_input,           \* the normalised answer read at the gate
    chapter_index,        \* fetch pass: number of chapters already handed out
    tasks,                \* M4L2.py: positions appended to tasks, not yet gathered
    run,                  \* per position: the download_chapter_images coroutine
    inflight,             \* connections the fetch pass's connector has handed out
    files,                \* page files on disk: <<chapter token, page index>>
    observed,             \* last (current, total) given to colorful_progress_bar
    netAfterGate,         \* some request was issued after the gate
    saveCalls,            \* number of save_history invocations
    probeLog,             \* last count_pages_in_chapter: token resolved, probes sent
    resolved,             \* last extract_text_from_url: site, result, GETs issued
    error,                \* the exception that left the running function, or NoError
    applied               \* a naming function on its own: arguments and results

vars == <<variant, chapters_to_download, max_connections, manga_name, history,
          history0, pc, idx, count, pages_per_chapter, total_chapters_pages,
          user_input, chapter_index, tasks, run, inflight, files, observed,
          netAfterGate, saveCalls, probeLog, resolved, error, applied>>

----------------------------------------------------------------------------
(* Bounds *)

MaxChapters == 2
MaxPages == 2
MaxPagesM4L2 == 1
MaxConn == 2
MaxLines == 2
MaxTitleLen == 2
MaxNameLen == 3
ChapterNumbers == 10000

----------------------------------------------------------------------------
(* Values *)

None == "None"
OK == 200
NotFound == 404

NoError == ""

\* What a GET gives back: a status and, for a viewer page, the routing token
\* matches of its body in order; or an exception raised: aiohttp.ClientError
\* (a connection error), or asyncio.TimeoutError when the session's total
\* timeout runs out, which is not a ClientError.
Response(status, matches) ==
    [raised |-> FALSE, exc |-> NoError, status |-> status, matches |-> matches]
ClientError == [raised |-> TRUE, exc |-> "ClientError", status |-> 0, matches |-> <<>>]
TimeoutError == [raised |-> TRUE, exc |-> "TimeoutError", status |-> 0, matches |-> <<>>]

\* download_history.txt: absent, or a text
NoFile == [exists |-> FALSE, content |-> <<>>]
File(text) == [exists |-> TRUE, content |-> text]

RECURSIVE SumSeq(_)
SumSeq(s) == IF s = <<>> THEN 0 ELSE s[1] + SumSeq(Tail(s))

Range(s) == {s[i] : i \in 1..Len(s)}

SeqsUpTo(S, n) == UNION {[1..k -> S] : k \in 0..n}

----------------------------------------------------------------------------
(* Naming & addressing *)

DigitChars == <<"0", "1", "2", "3", "4", "5", "6", "7", "8", "9">>

DigitVal(c) == (CHOOSE i \in 1..10 : DigitChars[i] = c) - 1

RECURSIVE ParseDigits(_, _)
ParseDigits(s, acc) ==
    IF s = <<>> THEN acc ELSE ParseDigits(Tail(s), 10 * acc + DigitVal(s[1]))

RECURSIVE ToDigits(_)
ToDigits(n) ==
    IF n < 10 THEN <<DigitChars[n + 1]>>
    ELSE ToDigits(n \div 10) \o <<DigitChars[(n % 10) + 1]>>

RECURSIVE ZeroPad(_, _)
ZeroPad(s, width) == IF Len(s) >= width THEN s ELSE ZeroPad(<<"0">> \o s, width)

\* int(s) succeeds: s is a non-empty run of decimal digits (chapter numbers
\* are stripped before; signs and "_" are not in the modelled alphabet)
IsInt(s) == s # <<>> /\ \A i \in 1..Len(s) : s[i] \in {DigitChars[d] : d \in 1..10}

RECURSIVE SplitFrom(_, _, _, _)
SplitFrom(s, sep, cur, acc) ==
    IF s = <<>> THEN Append(acc, cur)
    ELSE IF s[1] = sep THEN SplitFrom(Tail(s), sep, <<>>, Append(acc, cur))
    ELSE SplitFrom(Tail(s), sep, Append(cur, s[1]), acc)

\* str.split(sep) for a one character separator
Split(s, sep) == SplitFrom(s, sep, <<>>, <<>>)

\* format_chapter_number raises ValueError: the unpacking of split('.') into
\* two names fails, or int() does
FormatRaises(chapter_number) ==
    IF \E i \in 1..Len(chapter_number) : chapter_number[i] = "."
    THEN LET parts == Split(chapter_number, ".") IN
         Len(parts) # 2 \/ ~IsInt(parts[1])
    ELSE ~IsInt(chapter_number)

\* a format that pads on the wrong side
PadIntRight(numeral) ==
    LET digits == ToDigits(ParseDigits(numeral, 0)) IN
    digits \o [i \in 1..(4 - Len(digits)) |-> "0"]

\* f"{int(numeral):04d}"
PadInt(numeral) == ZeroPad(ToDigits(ParseDigits(numeral, 0)), 4)

\* format_chapter_number where it does not raise: the integer part padded
\* and, after a ".", the decimal part as it came
FormatChapterNumber(chapter_number) ==
    IF \E i \in 1..Len(chapter_number) : chapter_number[i] = "."
    THEN LET parts == Split(chapter_number, ".") IN
         PadInt(parts[1]) \o <<".">> \o parts[2]
    ELSE PadInt(chapter_number)

----------------------------------------------------------------------------
(* The name normalisation of __init__.  Characters: "i" and "I"; "Idot",   *)
(* LATIN CAPITAL LETTER I WITH DOT ABOVE (U+0130), whose lowercase is "i"  *)
(* followed by "dot", COMBINING DOT ABOVE (U+0307), a character without    *)
(* case; the space and the tab; the hyphen.                                *)

\* str.lower() of one character
LowerChar(c) ==
    CASE c = "I" -> <<"i">> [] c = "Idot" -> <<"i", "dot">> [] OTHER -> <<c>>

\* str.upper() and the title case of one character
UpperCh(c) == IF c = "i" THEN "I" ELSE c

\* the character has a case
IsCased(c) == c \in {"i", "I", "Idot"}

\* the character matches \s
IsSpace(c) == c \in {" ", "\t"}

RECURSIVE TitleFrom(_, _, _)
TitleFrom(s, previous_is_cased, acc) ==
    IF s = <<>> THEN acc
    ELSE TitleFrom(Tail(s), IsCased(s[1]),
                   acc \o (IF previous_is_cased THEN LowerChar(s[1])
                           ELSE <<UpperCh(s[1])>>))

RECURSIVE TitleWordsFrom(_, _, _)
TitleWordsFrom(s, in_word, acc) ==
    IF s = <<>> THEN acc
    ELSE TitleWordsFrom(Tail(s), ~IsSpace(s[1]),
                        acc \o (IF in_word THEN LowerChar(s[1]) ELSE <<UpperCh(s[1])>>))

\* a title case that starts a word only after white space, as
\* ' '.join(w.capitalize() for w in s.split(' ')) does
TitleWords(s) == TitleWordsFrom(s, FALSE, <<>>)

\* str.title(): a cased character after a cased one is lowered, any other
\* is put in title case
Title(s) == TitleFrom(s, FALSE, <<>>)

\* str.upper()
StrUpper(s) == [i \in 1..Len(s) |-> UpperCh(s[i])]

\* re.sub(r'\s+', '-', s)
RECURSIVE SubSpaces(_)
SubSpaces(s) ==
    IF s = <<>> THEN <<>>
    ELSE IF IsSpace(s[1])
    THEN IF Len(s) > 1 /\ IsSpace(s[2]) THEN SubSpaces(Tail(s))
         ELSE <<"-">> \o SubSpaces(Tail(s))
    ELSE <<s[1]>> \o SubSpaces(Tail(s))

\* __init__: formatted_manga_name from the title and the two flags
Slugify(manga_name_arg, uppercase, edit) ==
    SubSpaces(IF edit THEN manga_name_arg
              ELSE IF uppercase THEN StrUpper(manga_name_arg)
              ELSE Title(manga_name_arg))

\* the title has ASCII characters only
IsAscii(s) == \A i \in 1..Len(s) : s[i] \notin {"Idot", "dot"}

----------------------------------------------------------------------------
(* Routing token resolver *)

\* re.findall over a body: the model keeps the matches of the pattern, in order
ExtractTextFromHtml(matches) == IF Len(matches) > 0 THEN matches[1] ELSE None

\* "except aiohttp.ClientError": the exception that gets past the clause
Uncaught(response) == IF response.exc = "ClientError" THEN NoError ELSE response.exc

\* extract_text_from_url against a site (primary page, -index-2 page):
\* the value returned, the GETs issued in order, and the exception that
\* leaves the function instead of a value, if any.
ExtractTextFromUrl(site) ==
    IF site.primary.raised
    THEN [result |-> None, gets |-> <<"primary">>, error |-> Uncaught(site.primary)]
    ELSE IF site.primary.status = OK
    THEN LET manga_address == ExtractTextFromHtml(site.primary.matches) IN
         IF manga_address = None
         THEN IF site.alt.raised
              THEN [result |-> None, gets |-> <<"primary", "alt">>,
                    error |-> Uncaught(site.alt)]
              ELSE IF site.alt.status = OK
              THEN [result |-> ExtractTextFromHtml(site.alt.matches),
                    gets |-> <<"primary", "alt">>, error |-> NoError]
              ELSE [result |-> None, gets |-> <<"primary", "alt">>, error |-> NoError]
         ELSE [result |-> manga_address, gets |-> <<"primary">>, error |-> NoError]
    ELSE [result |-> None, gets |-> <<"primary">>, error |-> NoError]

----------------------------------------------------------------------------
(* Confirmation gate: input(...).strip().upper() *)

RECURSIVE LStrip(_)
LStrip(s) == IF s # <<>> /\ s[1] = " " THEN LStrip(Tail(s)) ELSE s

RECURSIVE RStrip(_)
RStrip(s) ==
    IF s # <<>> /\ s[Len(s)] = " " THEN RStrip(SubSeq(s, 1, Len(s) - 1)) ELSE s

Strip(s) == RStrip(LStrip(s))

UpperChar(c) == CASE c = "y" -> "Y" [] c = "n" -> "N" [] OTHER -> c

Upper(s) == [i \in 1..Len(s) |-> UpperChar(s[i])]

\* a gate that only stops on an explicit no
ProceedsUnlessNo(answer) == answer # <<"N">>

\* the test of "if user_input != 'Y': return", negated
Proceeds(answer) == answer = <<"Y">>

----------------------------------------------------------------------------
(* History ledger *)

RECURSIVE SplitLinesFrom(_, _, _)
SplitLinesFrom(s, cur, acc) ==
    IF s = <<>> THEN (IF cur = <<>> THEN acc ELSE Append(acc, cur))
    ELSE IF s[1] = "\n" THEN SplitLinesFrom(Tail(s), <<>>, Append(acc, cur))
    ELSE SplitLinesFrom(Tail(s), Append(cur, s[1]), acc)

\* str.splitlines() of a text whose only line boundary is "\n"
SplitLines(s) == SplitLinesFrom(s, <<>>, <<>>)

\* what open(history_file, 'a+') reads after touch()
ReadHistory(h) == IF h.exists THEN h.content ELSE <<>>

\* a save_history that forgets the line end
SaveHistoryNoNewline(h, name) ==
    LET content == ReadHistory(h)
        history_lines == SplitLines(content)
    IN  IF name \notin Range(history_lines)
        THEN File(content \o name)
        ELSE File(content)

\* save_history: the file content it leaves
SaveHistory(h, name) ==
    LET content == ReadHistory(h)
        history_lines == SplitLines(content)
    IN  IF name \notin Range(history_lines)
        THEN File(content \o name \o <<"\n">>)
        ELSE File(content)

----------------------------------------------------------------------------
(* Progress bar *)

Min(a, b) == IF a < b THEN a ELSE b

\* colorful_progress_bar: the filled length it draws, or ZeroDivisionError raised
ColorfulProgressBar(current, total) ==
    IF total = 0 THEN [raised |-> TRUE, filled_length |-> 0]
    ELSE [raised |-> FALSE, filled_length |-> (50 * Min(current, total)) \div total]

----------------------------------------------------------------------------
(* Inputs and the remote source *)

ChapterIds == {<<"1">>, <<"2">>}

ChapterLists == SeqsUpTo(ChapterIds, MaxChapters)

\* chapter numbers as typed: a numeral, a numeral with a decimal part, and
\* three that are no chapter number
TypedChapterIds ==
    {<<"1">>, <<"1", ".", "5">>, <<"x">>, <<"1", ".", "2", ".", "3">>, <<".", "5">>}

TypedChapterLists == SeqsUpTo(TypedChapterIds, MaxChapters)

\* parse_chapters("1-2,1-2,1-2"): one full group of tasks and a rest
LongBatch == <<(<<"1">>), (<<"2">>), (<<"1">>), (<<"2">>), (<<"1">>), (<<"2">>)>>

Letters == {"a", "b"}

Titles == SeqsUpTo(Letters, MaxTitleLen)

NoDuplicates(s) == \A i, j \in 1..Len(s) : s[i] = s[j] => i = j

RECURSIVE JoinLines(_)
JoinLines(lines) ==
    IF lines = <<>> THEN <<>> ELSE lines[1] \o <<"\n">> \o JoinLines(Tail(lines))

\* the ledgers the program leaves behind: distinct titles, one per line
WrittenLedgers ==
    {NoFile} \cup {File(JoinLines(l)) : l \in {s \in SeqsUpTo(Titles, MaxLines) : NoDuplicates(s)}}

Tokens == {"cdnA", "cdnB"}

\* bodies with no, one or two matches of the vm.CurPathName pattern
Bodies(T) == SeqsUpTo(T, 2)

ViewerResponses(T) ==
    {ClientError, TimeoutError, Response(NotFound, <<>>)}
        \cup {Response(OK, m) : m \in Bodies(T)}

Sites(T) == [primary : ViewerResponses(T), alt : ViewerResponses(T)]

\* the viewer pages a batch meets: the token on the primary page, on the
\* alternate page only, on neither, a primary page that is not served, a
\* primary page whose GET raises
PipelineSites ==
    LET found == Response(OK, <<"cdnA">>)
        empty == Response(OK, <<>>)
        gone == Response(NotFound, <<>>)
    IN  {[primary |-> found, alt |-> gone],
         [primary |-> empty, alt |-> found],
         [primary |-> empty, alt |-> gone],
         [primary |-> gone, alt |-> found],
         [primary |-> ClientError, alt |-> found]}

\* the longest chapter the source holds
PageCap == IF variant = "m4l" THEN MaxPages ELSE MaxPagesM4L2

\* answers of the image host to a GET of page png_number
PageResponses(png_number) ==
    {Response(NotFound, <<>>), ClientError}
        \cup (IF png_number <= PageCap THEN {Response(OK, <<>>)} ELSE {})

\* what the operator may type at the gate
Answers == {<<"Y">>, <<" ", "y">>, <<"y", " ">>, <<"N">>, <<"n">>, <<>>, <<"Y", "Y">>}

\* user_input before the prompt has been answered
NotAsked == <<"-">>

PipelineTitle == <<"a">>

\* no ledger yet, or one that already holds the title
PipelineLedgers == {NoFile, File(PipelineTitle \o <<"\n">>)}

----------------------------------------------------------------------------
(* State of the coroutines *)

IdleCount == [pc |-> "idle", manga_address |-> None, page_count |-> 0, png_number |-> 0]

\* gets, answered, wrote, resolves, probes and failed keep what the coroutine
\* did: the page GETs it sent, the pages that answered 200, the page files
\* it wrote, its calls of extract_text_from_url, the pages it probed for
\* existence and the pages whose file could not be written
NewRun == [pc |-> "new", index |-> 0, total_pages |-> 0, manga_address |-> None,
           png_number |-> 0, gets |-> <<>>, answered |-> {}, wrote |-> {},
           resolves |-> 0, probes |-> <<>>, failed |-> {}]

\* nothing counted yet
NoProbes == [manga_address |-> None, probes |-> <<>>]

\* no naming function applied on its own
NotApplied == [f |-> None]

NoCall == [current |-> 0, total |-> 0, index |-> 0, page |-> 0]

NoResolve == [site |-> [primary |-> ClientError, alt |-> ClientError],
              result |-> None, gets |-> <<>>, returned |-> FALSE]

Positions == 1..Len(chapters_to_download)

\* what a batch never writes
cfgVars == <<variant, chapters_to_download, max_connections, manga_name, history0,
             applied>>
countVars == <<idx, count, pages_per_chapter, total_chapters_pages, probeLog>>
fetchVars == <<chapter_index, tasks, run, inflight, files, observed, netAfterGate>>

InitPipeline(v, batches, ledgers, limits) ==
    /\ variant = v
    /\ chapters_to_download \in batches
    /\ max_connections \in limits
    /\ manga_name = PipelineTitle
    /\ history \in ledgers
    /\ history0 = history
    /\ pc = "count"
    /\ idx = 1
    /\ count = IdleCount
    /\ pages_per_chapter = <<>>
    /\ total_chapters_pages = 0
    /\ user_input = NotAsked
    /\ chapter_index = 0
    /\ tasks = <<>>
    /\ run = [p \in 1..Len(chapters_to_download) |-> NewRun]
    /\ inflight = 0
    /\ files = {}
    /\ observed = NoCall
    /\ netAfterGate = FALSE
    /\ saveCalls = 0
    /\ probeLog = NoProbes
    /\ resolved = NoResolve
    /\ error = NoError
    /\ applied = NotApplied

----------------------------------------------------------------------------
(* Counting pass *)

\* pages_per_chapter[chapter_number] = page_count
SetItem(dict, key, value) ==
    [k \in (DOMAIN dict) \cup {key} |-> IF k = key THEN value ELSE dict[k]]

\* download_chapters records what count_pages_in_chapter returned
CountReturns(page_count) ==
    /\ pages_per_chapter' = SetItem(pages_per_chapter, chapters_to_download[idx], page_count)
    /\ total_chapters_pages' =
           IF variant = "m4l" THEN total_chapters_pages + page_count
           ELSE total_chapters_pages
    /\ idx' = idx + 1
    /\ count' = IdleCount

\* count_pages_in_chapter up to its first probe: formats the chapter number
\* (a ValueError leaves download_chapters, nothing catches it), then resolves
\* the routing token (the one or two viewer GETs of extract_text_from_url,
\* awaited in turn; the viewer pages of a batch do not time out)
CountPagesInChapter ==
    /\ pc = "count"
    /\ idx <= Len(chapters_to_download)
    /\ count.pc = "idle"
    /\ IF FormatRaises(chapters_to_download[idx])
       THEN /\ pc' = "raised"
            /\ error' = "ValueError"
            /\ UNCHANGED countVars
       ELSE /\ \E site \in PipelineSites :
                 LET manga_address == ExtractTextFromUrl(site).result IN
                 /\ probeLog' = [manga_address |-> manga_address, probes |-> <<>>]
                 /\ IF manga_address # None
                    THEN /\ count' = [pc |-> "probe", manga_address |-> manga_address,
                                      page_count |-> 0, png_number |-> 1]
                         /\ UNCHANGED <<idx, pages_per_chapter, total_chapters_pages>>
                    ELSE CountReturns(0)
            /\ UNCHANGED <<pc, error>>
    /\ UNCHANGED <<cfgVars, fetchVars, history, user_input, saveCalls, resolved>>

\* a probe loop that steps over every other page
PageCountedSkipping(c) == [c EXCEPT !.page_count = @ + 1, !.png_number = @ + 2]

\* "page_count += 1" and, the page having answered 200, "png_number += 1"
PageCounted(c) == [c EXCEPT !.page_count = @ + 1, !.png_number = @ + 1]

\* one turn of the probe loop: GET the page image, look at the status
ProbePage ==
    /\ pc = "count"
    /\ count.pc = "probe"
    /\ \E response \in PageResponses(count.png_number) :
         /\ probeLog' = [probeLog EXCEPT
                            !.probes = Append(@, [png_number |-> count.png_number,
                                                  response |-> response])]
         /\ IF response.raised
            THEN /\ pc' = "raised"
                 /\ error' = response.exc
                 /\ UNCHANGED <<idx, count, pages_per_chapter, total_chapters_pages>>
            ELSE IF response.status = OK
            THEN /\ count' = PageCounted(count)
                 /\ UNCHANGED <<pc, error, idx, pages_per_chapter, total_chapters_pages>>
            ELSE /\ CountReturns(count.page_count)
                 /\ UNCHANGED <<pc, error>>
    /\ UNCHANGED <<cfgVars, fetchVars, history, user_input, saveCalls, resolved>>

\* the counting loop is over: the plan is logged and the prompt shown
ShowPlan ==
    /\ pc = "count"
    /\ idx > Len(chapters_to_download)
    /\ pc' = "gate"
    /\ UNCHANGED <<cfgVars, countVars, fetchVars, history, user_input, saveCalls, resolved, error>>

----------------------------------------------------------------------------
(* Confirmation gate *)

ConfirmationGate ==
    /\ pc = "gate"
    /\ \E raw \in Answers :
         /\ user_input' = Upper(Strip(raw))
         /\ pc' = IF Proceeds(user_input') THEN "fetch" ELSE "aborted"
    /\ UNCHANGED <<cfgVars, countVars, fetchVars, history, saveCalls, resolved, error>>

----------------------------------------------------------------------------
(* Fetch pass *)

GroupSize == 5
ConnectorLimitM4L2 == 10

Running(t) == run[t].pc \in {"start", "probe", "fetch", "fetch_wait", "write"}

\* m4l.py: "await self.download_chapter_images(...)" of the next chapter, once
\* the previous one has returned
DownloadNextChapter ==
    /\ pc = "fetch"
    /\ variant = "m4l"
    /\ chapter_index < Len(chapters_to_download)
    /\ \A t \in Positions : ~Running(t)
    /\ LET t == chapter_index + 1 IN
       run' = [run EXCEPT ![t] = [@ EXCEPT
                   !.pc = "start",
                   !.index = chapter_index,
                   !.total_pages = pages_per_chapter[chapters_to_download[t]]]]
    /\ chapter_index' = chapter_index + 1
    /\ UNCHANGED <<cfgVars, countVars, tasks, inflight, files, observed, netAfterGate,
                   history, pc, user_input, saveCalls, resolved, error>>

\* M4L2.py: tasks.append(self.download_chapter_images(session, chapter_number))
AppendTask ==
    /\ pc = "fetch"
    /\ variant = "M4L2"
    /\ chapter_index < Len(chapters_to_download)
    /\ Len(tasks) < GroupSize
    /\ tasks' = Append(tasks, chapter_index + 1)
    /\ chapter_index' = chapter_index + 1
    /\ UNCHANGED <<cfgVars, countVars, run, inflight, files, observed, netAfterGate,
                   history, pc, user_input, saveCalls, resolved, error>>

\* asyncio.gather(*tasks): every collected coroutine is scheduled
Gather ==
    /\ run' = [t \in Positions |->
                 IF t \in Range(tasks) THEN [run[t] EXCEPT !.pc = "start"] ELSE run[t]]
    /\ pc' = "gather"
    /\ UNCHANGED <<cfgVars, countVars, chapter_index, tasks, inflight, files, observed,
                   netAfterGate, history, user_input, saveCalls, resolved, error>>

\* M4L2.py: "if len(tasks) >= 5: await asyncio.gather(*tasks)"
GatherFullGroup ==
    /\ pc = "fetch"
    /\ variant = "M4L2"
    /\ Len(tasks) >= GroupSize
    /\ Gather

\* M4L2.py: "if tasks: await asyncio.gather(*tasks)" after the loop
GatherRest ==
    /\ pc = "fetch"
    /\ variant = "M4L2"
    /\ chapter_index = Len(chapters_to_download)
    /\ Len(tasks) < GroupSize
    /\ tasks # <<>>
    /\ Gather

\* a wait that returns with the first coroutine that is done
GatherReturnsFirst ==
    /\ pc = "gather"
    /\ \E t \in Range(tasks) : run[t].pc = "done"
    /\ tasks' = <<>>
    /\ pc' = "fetch"
    /\ UNCHANGED <<cfgVars, countVars, chapter_index, run, inflight, files, observed,
                   netAfterGate, history, user_input, saveCalls, resolved, error>>

\* the gather returns when all its coroutines have; "tasks = []" follows the
\* in-loop gather and nothing reads tasks after the last one
GatherReturns ==
    /\ pc = "gather"
    /\ \A t \in Range(tasks) : run[t].pc = "done"
    /\ tasks' = <<>>
    /\ pc' = "fetch"
    /\ UNCHANGED <<cfgVars, countVars, chapter_index, run, inflight, files, observed,
                   netAfterGate, history, user_input, saveCalls, resolved, error>>

\* download_chapter_images up to its first page: resolves the routing token anew
DownloadChapterImages(t) ==
    /\ pc \in {"fetch", "gather"}
    /\ run[t].pc = "start"
    /\ netAfterGate' = TRUE
    /\ \E site \in PipelineSites :
         LET manga_address == ExtractTextFromUrl(site).result IN
         run' = [run EXCEPT ![t] = [@ EXCEPT
                   !.resolves = @ + 1,
                   !.manga_address = manga_address,
                   !.png_number = 1,
                   !.pc = IF manga_address = None THEN "done"
                          ELSE IF variant = "M4L2" THEN "probe"
                          ELSE IF 1 <= run[t].total_pages THEN "fetch"
                          ELSE "done"]]
    /\ UNCHANGED <<cfgVars, countVars, chapter_index, tasks, inflight, files, observed,
                   history, pc, user_input, saveCalls, resolved, error>>

\* M4L2.py: one turn of the page count loop inside download_chapter_images;
\* a ClientError is not caught there and leaves download_chapters through
\* the gather
ProbeAgain(t) ==
    /\ pc = "gather"
    /\ run[t].pc = "probe"
    /\ \E response \in PageResponses(run[t].png_number) :
         IF response.raised
         THEN /\ pc' = "raised"
              /\ error' = response.exc
              /\ run' = [run EXCEPT ![t] = [@ EXCEPT
                           !.probes = Append(@, run[t].png_number)]]
         ELSE IF response.status = OK
         THEN /\ run' = [run EXCEPT ![t] = [@ EXCEPT
                           !.probes = Append(@, run[t].png_number),
                           !.total_pages = @ + 1, !.png_number = @ + 1]]
              /\ UNCHANGED <<pc, error>>
         ELSE /\ run' = [run EXCEPT ![t] = [@ EXCEPT
                           !.probes = Append(@, run[t].png_number),
                           !.png_number = 1,
                           !.pc = IF 1 <= run[t].total_pages THEN "fetch" ELSE "done"]]
              /\ UNCHANGED <<pc, error>>
    /\ netAfterGate' = TRUE
    /\ UNCHANGED <<cfgVars, countVars, chapter_index, tasks, inflight, files, observed,
                   history, user_input, saveCalls, resolved>>

\* aiohttp.TCPConnector(limit=...) of the fetch session
ConnectorLimit == max_connections

\* a download_image that is not awaited and asks no connector
MayIssueGetUnawaited(t) == run[t].pc \in {"fetch", "fetch_wait"}

\* session.get of download_image goes out: the coroutine stands at the call
\* and the connector has a free connection
MayIssueGet(t) ==
    /\ run[t].pc = "fetch"
    /\ inflight < ConnectorLimit

\* download_image: the GET of page png_number is sent
IssuePageGet(t) ==
    /\ pc \in {"fetch", "gather"}
    /\ MayIssueGet(t)
    /\ run' = [run EXCEPT ![t] = [@ EXCEPT
                 !.pc = "fetch_wait", !.gets = Append(@, run[t].png_number)]]
    /\ inflight' = inflight + 1
    /\ netAfterGate' = TRUE
    /\ UNCHANGED <<cfgVars, countVars, chapter_index, tasks, files, observed,
                   history, pc, user_input, saveCalls, resolved, error>>

\* "overall_progress = (chapter_index * total_pages) + png_number"
OverallProgress(index, total_pages, png_number) == (index * total_pages) + png_number

\* a download_image that does not look at the status
DownloadImageAnyStatus(response) == ~response.raised

\* download_image: TRUE when it writes the body to the page file
DownloadImage(response) == ~response.raised /\ response.status = OK

\* download_image: the answer arrives; on 200 the page is written and, in
\* m4l.py, the progress bar told; then the page loop moves on
PageArrives(t) ==
    /\ pc \in {"fetch", "gather"}
    /\ run[t].pc = "fetch_wait"
    /\ inflight' = inflight - 1
    /\ \E response \in PageResponses(run[t].png_number) :
         LET r == run[t]
             downloaded == DownloadImage(response)
             overall_progress == OverallProgress(r.index, r.total_pages, r.png_number)
             bar == ColorfulProgressBar(overall_progress, total_chapters_pages)
             told == downloaded /\ variant = "m4l"
         IN  /\ files' = IF downloaded
                         THEN files \cup {<<FormatChapterNumber(chapters_to_download[t]),
                                            r.png_number>>}
                         ELSE files
             /\ observed' = IF told /\ ~bar.raised
                            THEN [current |-> overall_progress,
                                  total |-> total_chapters_pages,
                                  index |-> r.index, page |-> r.png_number]
                            ELSE observed
             /\ pc' = IF told /\ bar.raised THEN "raised" ELSE pc
             /\ error' = IF told /\ bar.raised THEN "ZeroDivisionError" ELSE error
             /\ run' = [run EXCEPT ![t] = [@ EXCEPT
                          !.wrote = IF downloaded THEN @ \cup {r.png_number} ELSE @,
                          !.answered = IF ~response.raised /\ response.status = OK
                                       THEN @ \cup {r.png_number} ELSE @,
                          !.png_number = @ + 1,
                          !.pc = IF r.png_number + 1 <= r.total_pages
                                 THEN "fetch" ELSE "done"]]
    /\ UNCHANGED <<cfgVars, countVars, chapter_index, tasks, netAfterGate, history,
                   user_input, saveCalls, resolved>>

\* download_image: the page answers 200 and os.makedirs, aiofiles.open or
\* write raises OSError (disk full, no permission); "except
\* aiohttp.ClientError" does not catch it and it leaves download_image,
\* download_chapter_images and download_chapters
PageWriteFails(t) ==
    /\ pc \in {"fetch", "gather"}
    /\ run[t].pc = "fetch_wait"
    /\ run[t].png_number <= PageCap
    /\ inflight' = inflight - 1
    /\ run' = [run EXCEPT ![t] = [@ EXCEPT
                 !.answered = @ \cup {run[t].png_number},
                 !.failed = @ \cup {run[t].png_number}]]
    /\ pc' = "raised"
    /\ error' = "OSError"
    /\ UNCHANGED <<cfgVars, countVars, chapter_index, tasks, files, observed,
                   netAfterGate, history, user_input, saveCalls, resolved>>

\* M4L2.py download_image, the answer arrives: on 200 the folder is made and
\* the page file opened with 'wb', the connection still held; otherwise the
\* page loop moves on
PageAnswers(t) ==
    /\ pc \in {"fetch", "gather"}
    /\ variant = "M4L2"
    /\ run[t].pc = "fetch_wait"
    /\ \E response \in PageResponses(run[t].png_number) :
         LET r == run[t] IN
         IF DownloadImage(response)
         THEN /\ run' = [run EXCEPT ![t] = [@ EXCEPT
                           !.answered = @ \cup {r.png_number}, !.pc = "write"]]
              /\ UNCHANGED inflight
         ELSE /\ run' = [run EXCEPT ![t] = [@ EXCEPT
                           !.answered = IF ~response.raised /\ response.status = OK
                                        THEN @ \cup {r.png_number} ELSE @,
                           !.png_number = @ + 1,
                           !.pc = IF r.png_number + 1 <= r.total_pages
                                  THEN "fetch" ELSE "done"]]
              /\ inflight' = inflight - 1
    /\ UNCHANGED <<cfgVars, countVars, chapter_index, tasks, files, observed,
                   netAfterGate, history, pc, user_input, saveCalls, resolved, error>>

\* M4L2.py download_image: "await file.write(await response.read())" is done,
\* the file and the response are closed and the page loop moves on
WriteCompletes(t) ==
    /\ pc \in {"fetch", "gather"}
    /\ variant = "M4L2"
    /\ run[t].pc = "write"
    /\ LET r == run[t] IN
       /\ files' = files \cup {<<FormatChapterNumber(chapters_to_download[t]),
                                 r.png_number>>}
       /\ run' = [run EXCEPT ![t] = [@ EXCEPT
                    !.wrote = @ \cup {r.png_number},
                    !.png_number = @ + 1,
                    !.pc = IF r.png_number + 1 <= r.total_pages
                           THEN "fetch" ELSE "done"]]
    /\ inflight' = inflight - 1
    /\ UNCHANGED <<cfgVars, countVars, chapter_index, tasks, observed, netAfterGate,
                   history, pc, user_input, saveCalls, resolved, error>>

\* the fetch session closes after the last chapter
FetchPassEnds ==
    /\ pc = "fetch"
    /\ chapter_index = Len(chapters_to_download)
    /\ tasks = <<>>
    /\ \A t \in Positions : ~Running(t)
    /\ pc' = IF variant = "m4l" THEN "force" ELSE "save"
    /\ UNCHANGED <<cfgVars, countVars, fetchVars, history, user_input, saveCalls, resolved, error>>

\* m4l.py: "await self.colorful_progress_bar(total_chapters_pages, total_chapters_pages)"
ForceProgress ==
    /\ pc = "force"
    /\ LET bar == ColorfulProgressBar(total_chapters_pages, total_chapters_pages) IN
       IF bar.raised
       THEN /\ pc' = "raised"
            /\ error' = "ZeroDivisionError"
            /\ UNCHANGED observed
       ELSE /\ pc' = "save"
            /\ observed' = [current |-> total_chapters_pages,
                            total |-> total_chapters_pages,
                            index |-> Len(chapters_to_download), page |-> 0]
            /\ UNCHANGED error
    /\ UNCHANGED <<cfgVars, countVars, chapter_index, tasks, run, inflight, files,
                   netAfterGate, history, user_input, saveCalls, resolved>>

\* "await self.save_history(self.manga_name)"
AppendHistory ==
    /\ pc = "save"
    /\ history' = SaveHistory(history, manga_name)
    /\ saveCalls' = saveCalls + 1
    /\ pc' = "done"
    /\ UNCHANGED <<cfgVars, countVars, fetchVars, user_input, resolved, error>>

----------------------------------------------------------------------------
(* Specifications *)

CountingPass == CountPagesInChapter \/ ProbePage \/ ShowPlan

Completion == FetchPassEnds \/ AppendHistory

NextM4L ==
    \/ CountingPass
    \/ ConfirmationGate
    \/ DownloadNextChapter
    \/ \E t \in Positions : DownloadChapterImages(t)
    \/ \E t \in Positions : IssuePageGet(t)
    \/ \E t \in Positions : PageArrives(t)
    \/ Completion
    \/ ForceProgress

\* "max_connections: int = 10", also the default of --max-connections
DefaultMaxConnections == 10

Init == InitPipeline("m4l", ChapterLists, PipelineLedgers, {DefaultMaxConnections})

Next == NextM4L

\* one batch of m4l.py
Spec == Init /\ [][Next]_vars

\* one batch of m4l.py on a disk that may refuse a write
NextStorage == Next \/ \E t \in Positions : PageWriteFails(t)

SpecStorage == Init /\ [][NextStorage]_vars

InitTyped == InitPipeline("m4l", TypedChapterLists, {NoFile}, {DefaultMaxConnections})

\* one batch of m4l.py whose chapter list is taken as typed
SpecTyped == InitTyped /\ [][Next]_vars

----------------------------------------------------------------------------
(* The naming functions on their own *)

\* no batch runs; one call out of calls is to be made
InitApplied(calls) ==
    /\ variant = "naming"
    /\ chapters_to_download = <<>>
    /\ max_connections = 1
    /\ manga_name = <<>>
    /\ history = NoFile
    /\ history0 = history
    /\ pc = "call"
    /\ idx = 1
    /\ count = IdleCount
    /\ pages_per_chapter = <<>>
    /\ total_chapters_pages = 0
    /\ user_input = NotAsked
    /\ chapter_index = 0
    /\ tasks = <<>>
    /\ run = <<>>
    /\ inflight = 0
    /\ files = {}
    /\ observed = NoCall
    /\ netAfterGate = FALSE
    /\ saveCalls = 0
    /\ probeLog = NoProbes
    /\ resolved = NoResolve
    /\ error = NoError
    /\ applied \in calls

pipelineVars == <<variant, chapters_to_download, max_connections, manga_name, history,
                  history0, countVars, fetchVars, user_input, saveCalls, resolved>>

\* str(n) for the chapter numbers 0, 1, ..., with or without a decimal part
FormatCalls ==
    {[f |-> "format_chapter_number", n |-> n, chapter_number |-> ToDigits(n) \o decimal,
      formatted |-> <<>>, again |-> <<>>] :
        n \in 0..(ChapterNumbers - 1), decimal \in {<<>>, <<".", "5">>}}

InitFormat == InitApplied(FormatCalls)

\* format_chapter_number(chapter_number), and once more on the result, as
\* extract_text_from_url does with the formatted number it is given
FormatCall ==
    /\ pc = "call"
    /\ applied.f = "format_chapter_number"
    /\ IF FormatRaises(applied.chapter_number)
       THEN /\ pc' = "raised"
            /\ error' = "ValueError"
            /\ UNCHANGED applied
       ELSE LET formatted == FormatChapterNumber(applied.chapter_number) IN
            /\ applied' = [applied EXCEPT !.formatted = formatted,
                                          !.again = FormatChapterNumber(formatted)]
            /\ pc' = "returned"
            /\ UNCHANGED error
    /\ UNCHANGED pipelineVars

SpecFormat == InitFormat /\ [][FormatCall]_vars

NameChars == {"i", "I", "Idot", " ", "\t", "-"}

\* MangaDownloader(manga_name, uppercase, edit) for every short title
SlugifyCalls ==
    {[f |-> "slugify", manga_name |-> t, uppercase |-> u, edit |-> e,
      formatted_manga_name |-> <<>>, again |-> <<>>] :
        t \in SeqsUpTo(NameChars, MaxNameLen), u \in BOOLEAN, e \in BOOLEAN}

InitSlugify == InitApplied(SlugifyCalls)

\* __init__ of a title, and __init__ of the name it made, with the same flags
SlugifyCall ==
    /\ pc = "call"
    /\ applied.f = "slugify"
    /\ LET slug == Slugify(applied.manga_name, applied.uppercase, applied.edit) IN
       applied' = [applied EXCEPT
                      !.formatted_manga_name = slug,
                      !.again = Slugify(slug, applied.uppercase, applied.edit)]
    /\ pc' = "returned"
    /\ UNCHANGED <<pipelineVars, error>>

SpecSlugify == InitSlugify /\ [][SlugifyCall]_vars

NextM4L2 ==
    \/ AppendTask
    \/ GatherFullGroup
    \/ GatherRest
    \/ GatherReturns
    \/ \E t \in Positions : ProbeAgain(t)

InitBoth ==
    \/ InitPipeline("m4l", ChapterLists, PipelineLedgers, 1..MaxConn)
    \/ InitPipeline("M4L2", ChapterLists, PipelineLedgers, {ConnectorLimitM4L2})
    \/ InitPipeline("M4L2", {LongBatch}, {NoFile}, {ConnectorLimitM4L2})

NextBoth == NextM4L \/ NextM4L2

\* one batch of m4l.py or of M4L2.py
SpecBoth == InitBoth /\ [][NextBoth]_vars

\* parse_chapters("1-2,1-2,1"): one full group of tasks, chapters repeated
FiveBatch == <<(<<"1">>), (<<"2">>), (<<"1">>), (<<"2">>), (<<"1">>)>>

InitWrites ==
    InitPipeline("M4L2", ChapterLists \cup {FiveBatch}, {NoFile}, {ConnectorLimitM4L2})

NextWrites ==
    \/ CountingPass
    \/ ConfirmationGate
    \/ NextM4L2
    \/ \E t \in Positions : DownloadChapterImages(t)
    \/ \E t \in Positions : IssuePageGet(t)
    \/ \E t \in Positions : PageAnswers(t)
    \/ \E t \in Positions : WriteCompletes(t)
    \/ Completion

\* one batch of M4L2.py, the write of a page file taking time
SpecWrites == InitWrites /\ [][NextWrites]_vars

----------------------------------------------------------------------------
(* The ledger on its own: save_history called again and again *)

InitLedger ==
    /\ variant = "ledger"
    /\ chapters_to_download = <<>>
    /\ max_connections = 1
    /\ manga_name = <<>>
    /\ history \in WrittenLedgers
    /\ history0 = history
    /\ pc = "ledger"
    /\ idx = 1
    /\ count = IdleCount
    /\ pages_per_chapter = <<>>
    /\ total_chapters_pages = 0
    /\ user_input = NotAsked
    /\ chapter_index = 0
    /\ tasks = <<>>
    /\ run = <<>>
    /\ inflight = 0
    /\ files = {}
    /\ observed = NoCall
    /\ netAfterGate = FALSE
    /\ saveCalls = 0
    /\ probeLog = NoProbes
    /\ resolved = NoResolve
    /\ error = NoError
    /\ applied = NotApplied

\* save_history(title) at the end of some batch; history0 keeps the content
\* the call found
SaveHistoryCall ==
    /\ pc \in {"ledger", "appended"}
    /\ \E title \in Titles :
         /\ Len(SplitLines(SaveHistory(history, title).content)) <= MaxLines
         /\ manga_name' = title
         /\ history' = SaveHistory(history, title)
    /\ history0' = history
    /\ pc' = "appended"
    /\ UNCHANGED <<variant, chapters_to_download, max_connections, countVars, fetchVars,
                   user_input, saveCalls, resolved, error, applied>>

SpecLedger == InitLedger /\ [][SaveHistoryCall]_vars

----------------------------------------------------------------------------
(* The resolver on its own: one extract_text_from_url against any site *)

InitResolver ==
    /\ variant = "resolver"
    /\ chapters_to_download = <<>>
    /\ max_connections = 1
    /\ manga_name = <<>>
    /\ history = NoFile
    /\ history0 = history
    /\ pc = "resolve"
    /\ idx = 1
    /\ count = IdleCount
    /\ pages_per_chapter = <<>>
    /\ total_chapters_pages = 0
    /\ user_input = NotAsked
    /\ chapter_index = 0
    /\ tasks = <<>>
    /\ run = <<>>
    /\ inflight = 0
    /\ files = {}
    /\ observed = NoCall
    /\ netAfterGate = FALSE
    /\ saveCalls = 0
    /\ probeLog = NoProbes
    /\ \E site \in Sites(Tokens) : resolved = [NoResolve EXCEPT !.site = site]
    /\ error = NoError
    /\ applied = NotApplied

ResolveCall ==
    /\ pc = "resolve"
    /\ LET r == ExtractTextFromUrl(resolved.site) IN
       /\ resolved' = [site |-> resolved.site, result |-> r.result, gets |-> r.gets,
                       returned |-> r.error = NoError]
       /\ error' = r.error
       /\ pc' = IF r.error = NoError THEN "resolved" ELSE "raised"
    /\ UNCHANGED <<cfgVars, countVars, fetchVars, history, user_input, saveCalls>>

SpecResolver == InitResolver /\ [][ResolveCall]_vars

----------------------------------------------------------------------------
(* Properties *)

GatePassed == user_input # NotAsked

\* the ChapterPlan count the fetch pass uses for position t
PlanOf(t) == pages_per_chapter[chapters_to_download[t]]

PageFile(t, p) == <<FormatChapterNumber(chapters_to_download[t]), p>>

\* C1: at every instant the number of page GETs in flight, over all chapters
\* of the batch, is at most N: max_connections in m4l.py, 10 in M4L2.py.
C1_InFlightWithinLimit ==
    LET N == IF variant = "m4l" THEN max_connections ELSE 10 IN
    /\ inflight <= N
    /\ Cardinality({t \in Positions : run[t].pc = "fetch_wait"}) <= N

\* a page GET is in flight and the limit is reached
C1_LimitReached ==
    /\ variant = "m4l"
    /\ inflight = max_connections
    /\ \E t \in Positions : run[t].pc = "fetch_wait"

\* C2: from the gate on, total_chapters_pages is the sum, once per position
\* of the requested list, of the page count the fetch pass uses for it.
C2_DenominatorIsPlanSum ==
    GatePassed =>
        total_chapters_pages = SumSeq([t \in Positions |-> PlanOf(t)])

\* C3: an answer other than Y ends download_chapters: no page file, the
\* ledger as it was, no request after the gate, no coroutine started.
C3_AbortLeavesNothing ==
    (GatePassed /\ user_input # <<"Y">>) =>
        /\ pc = "aborted"
        /\ files = {}
        /\ history = history0
        /\ saveCalls = 0
        /\ ~netAfterGate
        /\ inflight = 0
        /\ count = IdleCount
        /\ \A t \in Positions : run[t] = NewRun

\* the operator declined a counted batch
C3_Declined ==
    /\ pc = "aborted"
    /\ user_input = <<"N">>
    /\ Len(probeLog.probes) >= 2

\* C4: when the primary page fails (non-200, or 200 without a match) and
\* the alternate page answers 200 with a match, the alternate's token is returned.
C4_FallbackOnAnyFailure ==
    LET site == resolved.site IN
    (/\ resolved.returned
     /\ ~site.primary.raised
     /\ (site.primary.status # OK \/ site.primary.matches = <<>>)
     /\ ~site.alt.raised
     /\ site.alt.status = OK
     /\ site.alt.matches # <<>>)
        => resolved.result = site.alt.matches[1]

\* C5: with a resolved token the prober probes 1, 2, ... in order, stops at
\* the first page that is not 200 and returns the number of pages before
\* it; without a token it returns 0 and probes nothing.
C5_ProberCountsPrefix ==
    LET log == probeLog.probes
        n == Len(log)
    IN  /\ (pc = "count" /\ count.pc = "probe") =>
              /\ n = count.page_count
              /\ count.png_number = n + 1
              /\ \A i \in 1..n : /\ log[i].png_number = i
                                 /\ ~log[i].response.raised
                                 /\ log[i].response.status = OK
        /\ (idx > 1 /\ count.pc = "idle") =>
              LET k == pages_per_chapter[chapters_to_download[idx - 1]] IN
              IF probeLog.manga_address = None
              THEN n = 0 /\ k = 0
              ELSE /\ n = k + 1
                   /\ \A i \in 1..n : log[i].png_number = i
                   /\ \A i \in 1..k : ~log[i].response.raised /\ log[i].response.status = OK
                   /\ ~log[n].response.raised
                   /\ log[n].response.status # OK

\* the prober has counted the longest chapter of the source
C5_CountedLongest ==
    /\ pc = "gate"
    /\ probeLog.manga_address # None
    /\ Len(probeLog.probes) = MaxPages + 1
    /\ pages_per_chapter[chapters_to_download[idx - 1]] = MaxPages

\* C6: once the answer is Y no exception leaves download_chapters, and the
\* batch ends after the forced progress update and one ledger append.
C6_ProceedReachesCompletion ==
    (GatePassed /\ user_input = <<"Y">>) =>
        /\ pc # "raised"
        /\ saveCalls <= 1
        /\ pc = "done" =>
              /\ saveCalls = 1
              /\ observed.current = total_chapters_pages
              /\ manga_name \in Range(SplitLines(ReadHistory(history)))

\* C7: the current values given to the progress bar never decrease.
C7_ProgressNeverDecreases == [][observed'.current >= observed.current]_vars

\* C8: after the gate a chapter counted at 0 pages gets no request and no file.
C8_ZeroCountChapterSkipped ==
    \A t \in Positions :
        (GatePassed /\ PlanOf(t) = 0) =>
            /\ run[t].resolves = 0
            /\ run[t].gets = <<>>
            /\ run[t].wrote = {}

\* C9: a chapter whose token resolves gets one GET per page 1..count, in
\* order and whatever the earlier pages answered, none beyond, and a page
\* file exactly for the pages that answered 200.
C9_EachPlannedPageOnce ==
    /\ \A t \in Positions :
          LET r == run[t] IN
          /\ \A i \in 1..Len(r.gets) : r.gets[i] = i
          /\ Len(r.gets) <= r.total_pages
          /\ r.wrote = r.answered
          /\ r.answered \subseteq Range(r.gets)
          /\ (r.pc = "done" /\ r.manga_address # None) => Len(r.gets) = PlanOf(t)
          /\ (r.pc = "done" /\ r.manga_address = None) => r.gets = <<>>
    /\ files = UNION {{PageFile(t, p) : p \in run[t].wrote} : t \in Positions}

\* a chapter of two pages whose first page failed and whose second was written
C9_FirstPageFailed ==
    \E t \in Positions :
        /\ run[t].pc = "done"
        /\ run[t].gets = <<1, 2>>
        /\ run[t].wrote = {2}

\* C10: save_history keeps one line per title: a title already there leaves
\* the ledger as it is, a new title becomes its last line.
C10_LedgerDeduplicates ==
    LET old == SplitLines(ReadHistory(history0))
        new == SplitLines(ReadHistory(history))
    IN  /\ variant = "ledger" => NoDuplicates(new)
        /\ pc = "appended" =>
              /\ history.exists
              /\ manga_name \in Range(old) => history.content = ReadHistory(history0)
              /\ manga_name \notin Range(old) => new = Append(old, manga_name)

\* a second title was appended to a ledger that held another
C10_SecondTitleAppended ==
    /\ pc = "appended"
    /\ Len(SplitLines(ReadHistory(history0))) = 1
    /\ Len(SplitLines(ReadHistory(history))) = 2
    /\ SplitLines(ReadHistory(history))[2] = manga_name

\* C11: a probe GET of the counting pass that raises a transport failure ends
\* the probe loop like a non-200 answer: count_pages_in_chapter returns the
\* pages counted so far and nothing is raised out of download_chapters.
C11_ProbeFailureEndsCount ==
    LET log == probeLog.probes
        n == Len(log)
    IN  (pc \in {"count", "raised"} /\ n > 0 /\ log[n].response.raised) =>
            /\ error = NoError
            /\ pc = "count"
            /\ count.pc = "idle"
            /\ idx > 1
            /\ pages_per_chapter[chapters_to_download[idx - 1]] = n - 1

\* C16: when page p of the chapter at position i (from 0) is written, the
\* current value given to the progress bar is the sum of the plan counts of
\* the positions before i, plus p.
C16_ProgressIsPagesSoFar ==
    observed.page >= 1 =>
        observed.current =
            SumSeq([t \in 1..observed.index |-> PlanOf(t)]) + observed.page

\* C19: every (current, total) the fetch pass gives to the progress bar has
\* 1 <= current <= total.
C19_ProgressWithinTotal ==
    observed # NoCall =>
        /\ 1 <= observed.current
        /\ observed.current <= observed.total

\* C12: a page whose file cannot be written is skipped and nothing else is:
\* no exception leaves download_chapters, the pages after it are still
\* requested, and the batch ends with its ledger append.
C12_StorageFailureSkipsPage ==
    (\E t \in Positions : run[t].failed # {}) =>
        /\ error = NoError
        /\ pc # "raised"
        /\ pc = "done" =>
              /\ saveCalls = 1
              /\ \A t \in Positions :
                    run[t].manga_address # None => Len(run[t].gets) = PlanOf(t)

\* C13: a chapter number that is no base-10 numeral does not abort the batch:
\* no ValueError leaves download_chapters, that chapter is neither counted
\* nor fetched, and every other chapter is counted before the gate.
C13_InvalidChapterExcluded ==
    LET invalid == {t \in Positions : FormatRaises(chapters_to_download[t])} IN
    invalid # {} =>
        /\ error # "ValueError"
        /\ \A t \in invalid :
              /\ chapters_to_download[t] \notin DOMAIN pages_per_chapter
              /\ run[t] = NewRun
        /\ (pc = "gate" \/ GatePassed) =>
              \A t \in Positions \ invalid :
                  chapters_to_download[t] \in DOMAIN pages_per_chapter

\* C14: the name normalisation is idempotent, for every title and every
\* setting of the uppercase and edit flags.
C14_SlugifyIdempotent ==
    (applied.f = "slugify" /\ pc = "returned") =>
        applied.again = applied.formatted_manga_name

\* C14, amended: the name normalisation is idempotent for every title when
\* edit or uppercase is set, and for every title of ASCII characters when
\* neither is.
C14_SlugifyIdempotentAscii ==
    (/\ applied.f = "slugify"
     /\ pc = "returned"
     /\ (applied.edit \/ applied.uppercase \/ IsAscii(applied.manga_name))) =>
        applied.again = applied.formatted_manga_name

\* a two word title in mixed case was title cased and hyphenated
C14_TwoWordsSlugified ==
    /\ pc = "returned"
    /\ applied.f = "slugify"
    /\ ~applied.edit /\ ~applied.uppercase
    /\ applied.manga_name = <<"i", " ", "I">>
    /\ applied.formatted_manga_name = <<"I", "-", "I">>

\* C15: for 0 <= n < 10000, format_chapter_number(str(n)) has at least four
\* characters and parses back to n, and formatting its own output gives the
\* output again.
C15_FormatRoundTrips ==
    (applied.f = "format_chapter_number" /\ pc = "returned") =>
        LET formatted == applied.formatted
            integer_part == Split(formatted, ".")[1]
        IN  /\ Len(formatted) >= 4
            /\ IsInt(integer_part)
            /\ ParseDigits(integer_part, 0) = applied.n
            /\ applied.again = formatted

\* a one digit chapter number was padded to four
C15_OneDigitPadded ==
    /\ pc = "returned"
    /\ applied.f = "format_chapter_number"
    /\ applied.n = 7
    /\ applied.formatted = <<"0", "0", "0", "7">>

\* C17: after the gate neither program probes a page for existence: every
\* page GET is a fetch of an index within 1..count of the counting pass, and
\* no coroutine of the fetch pass runs a probe loop of its own.
C17_NoProbeAfterGate ==
    \A t \in Positions :
        /\ run[t].probes = <<>>
        /\ \A i \in 1..Len(run[t].gets) : run[t].gets[i] \in 1..PlanOf(t)

\* C18: extract_text_from_url lets no network failure out: when the primary
\* or the alternate GET raises a connection error or a timeout it returns
\* None; it sends at most two GETs, the primary first, no URL twice.
C18_ResolverAbsorbsFailures ==
    (variant = "resolver" /\ pc # "resolve") =>
        LET site == resolved.site
            failed == \/ site.primary.raised
                      \/ ("alt" \in Range(resolved.gets) /\ site.alt.raised)
        IN  /\ error = NoError
            /\ resolved.returned
            /\ failed => resolved.result = None
            /\ Len(resolved.gets) \in {1, 2}
            /\ resolved.gets[1] = "primary"
            /\ NoDuplicates(resolved.gets)

\* the group of five a position of the list falls in
GroupOf(t) == (t - 1) \div GroupSize

\* C20: in the fetch pass of M4L2.py every position gets one
\* download_chapter_images run and no more, at most 5 runs are active at
\* any instant, no run of a later group starts before every run of the
\* earlier groups has finished, and save_history comes after all runs.
C20_GroupsOfFive ==
    variant = "M4L2" =>
        /\ \A t \in Positions : run[t].resolves <= 1
        /\ Cardinality({t \in Positions : Running(t)}) <= 5
        /\ \A t1, t2 \in Positions :
              (GroupOf(t1) < GroupOf(t2) /\ run[t2].pc # "new") => run[t1].pc = "done"
        /\ (pc \in {"save", "done"} \/ saveCalls > 0) =>
              \A t \in Positions : run[t].pc = "done" /\ run[t].resolves = 1

\* the sixth chapter of a batch runs after the five before it have finished,
\* one of them with a page on disk
C20_SecondGroupRuns ==
    /\ variant = "M4L2"
    /\ Len(chapters_to_download) = 6
    /\ Running(6)
    /\ \A t \in 1..5 : run[t].pc = "done"
    /\ run[1].wrote # {}

\* C21: in the fetch pass of M4L2.py, chapters asked for twice included, no
\* two running chapter downloads have the same page file open for writing
\* at the same instant.
C21_NoSharedPageFile ==
    variant = "M4L2" =>
        \A t1, t2 \in Positions :
            (/\ t1 # t2
             /\ run[t1].pc = "write"
             /\ run[t2].pc = "write") =>
                PageFile(t1, run[t1].png_number) # PageFile(t2, run[t2].png_number)

====
